---------------------------- MODULE Spec2Model ----------------------------
(***************************************************************************)
(* A model of the two training scripts of tensorflow-examples:             *)
(*   src/mnist/mnist_train.py      (decoder, split, training loop, metric) *)
(*   src/cifar100/cifar100_train.py                                        *)
(*                                                                         *)
(* Arrays are sequences (1-based here, 0-based in the source); a decoded   *)
(* pixel is the exact rational <<numerator, denominator>>.  The sizes the  *)
(* script fixes (60000 records, VALIDATION_SIZE 5000, BATCH_SIZE 60,       *)
(* IMAGE_SIZE 28) are drawn by Init from small ranges, so that every       *)
(* property is checked for a family of sizes.  The test archives (lines    *)
(* 177 and 209) are taken to be well-formed; only the labels of the test   *)
(* set enter the model, at the final evaluation of line 560.               *)
(*                                                                         *)
(* Three specifications share the operators that model the functions:      *)
(*   Spec        the whole MNIST script, from line 176 to line 561         *)
(*   SpecDecode  extract_data and extract_labels on archives of any length *)
(*   SpecMetric  error_rate called repeatedly on small batches             *)
(***************************************************************************)
EXTENDS Integers, Sequences, FiniteSets, TLC

VARIABLES
    pc,                \* position of the script
    raised,            \* the exception that ended the script ("" if none)
    IMAGE_SIZE,        \* mnist_train.py:155
    VALIDATION_SIZE,   \* mnist_train.py:229
    BATCH_LITERAL,     \* the literal assigned to BATCH_SIZE at mnist_train.py:440
    args_batch_size,   \* --batch-size, mnist_train.py:26
    BATCH_SIZE,        \* the global BATCH_SIZE (lines 32 and 440)
    node_batch,        \* first dimension of the placeholders, lines 272-276
    num_images,        \* the record count passed to extract_data/extract_labels
    data_archive,      \* decompressed bytes of the image archive
    labels_archive,    \* decompressed bytes of the label archive
    train_data, train_labels,
    validation_data, validation_labels,
    train_size,
    steps, iter, step, offset,
    batch_data, batch_labels,
    batch,             \* tf.Variable(0) incremented by each optimizer run, line 383
    fed,               \* the feed_dict of the last optimizer run
    predictions, labels_arg, error, confusions, test_error,
    calls,             \* how many times error_rate has been called on its own
    \* cifar100_train.py
    max_steps,         \* FLAGS.max_steps, line 57
    log_frequency,     \* FLAGS.log_frequency, line 61
    train_dir,         \* FLAGS.train_dir on disk: whether it exists, and the
                       \* global step of the checkpoint in it (-1: none)
    global_step,       \* line 68
    self_step,         \* _LoggerHook._step
    self_last_loss,    \* _LoggerHook._last_loss ("unset" until assigned)
    stop_requested,    \* what mon_sess.should_stop() returns
    run_loss,          \* the loss the last mon_sess.run returned to the hooks
    console,           \* the lines printed by _LoggerHook.after_run
    summary            \* the final lines of lines 130-132

vars == <<pc, raised, IMAGE_SIZE, VALIDATION_SIZE, BATCH_LITERAL, args_batch_size,
          BATCH_SIZE, node_batch, num_images, data_archive, labels_archive,
          train_data, train_labels, validation_data, validation_labels,
          train_size, steps, iter, step, offset, batch_data, batch_labels, batch, fed,
          predictions, labels_arg, error, confusions, test_error, calls,
          max_steps, log_frequency, train_dir, global_step, self_step,
          self_last_loss, stop_requested, run_loss, console, summary>>

cifarVars == <<max_steps, log_frequency, train_dir, global_step, self_step,
               self_last_loss, stop_requested, run_loss, console, summary>>

-----------------------------------------------------------------------------
(* Bounds of the model *)

MaxSide == 2
MaxImages == 5
MaxValidation == 2
MaxBatch == 2
MaxMissing == 2
MaxLen == 2
MaxCalls == 2
MaxSteps == 4
MaxLogFrequency == 3
MaxExtraSteps == 12

(* Program constants *)

PIXEL_DEPTH == 255
NUM_LABELS == 10
IMAGE_HEADER == 16
LABEL_HEADER == 8
REPORT_EVERY == 100
CONFUSION_SIDE == 10

-----------------------------------------------------------------------------
(* Python and numpy primitives *)

Min(a, b) == IF a < b THEN a ELSE b

Max(a, b) == IF a > b THEN a ELSE b

\* A slice bound of a sequence of length n: a negative bound counts from the
\* end, and bounds outside the sequence are clamped.
SliceBound(i, n) == IF i < 0 THEN Max(n + i, 0) ELSE Min(i, n)

\* a[lo:hi]
PySlice(a, lo, hi) ==
    SubSeq(a, SliceBound(lo, Len(a)) + 1, SliceBound(hi, Len(a)))

\* a % m for m # 0: the result has the sign of m.
PyMod(a, m) == IF m > 0 THEN a % m ELSE 0 - ((0 - a) % (0 - m))

\* stream.read(n) on the bytes that remain: at most n of them.
ReadBytes(rest, n) == PySlice(rest, 0, n)

\* what remains of a stream after read(n)
AfterRead(rest, n) == PySlice(rest, n, Len(rest))

\* numpy.argmax of a vector: the first index (0-based) holding the maximum.
RECURSIVE ArgmaxFrom(_, _, _)
ArgmaxFrom(v, i, best) ==
    IF i > Len(v) THEN best - 1
    ELSE IF v[i] > v[best] THEN ArgmaxFrom(v, i + 1, i)
    ELSE ArgmaxFrom(v, i + 1, best)

\* A variant that keeps the last index holding the maximum.
RECURSIVE ArgmaxLastFrom(_, _, _)
ArgmaxLastFrom(v, i, best) ==
    IF i > Len(v) THEN best - 1
    ELSE IF v[i] >= v[best] THEN ArgmaxLastFrom(v, i + 1, i)
    ELSE ArgmaxLastFrom(v, i + 1, best)

ArgmaxLast(v) == ArgmaxLastFrom(v, 2, 1)

Argmax(v) == ArgmaxFrom(v, 2, 1)

-----------------------------------------------------------------------------
(* The archive format, mnist_train.py:56-64 and 121-127 *)

BE32(n) == << (n \div 16777216) % 256, (n \div 65536) % 256,
              (n \div 256) % 256, n % 256 >>

ImageHeader(n, side) == BE32(2051) \o BE32(n) \o BE32(side) \o BE32(side)

LabelHeader(n) == BE32(2049) \o BE32(n)

-----------------------------------------------------------------------------
(* extract_data, mnist_train.py:158-174 *)

\* line 172: (data - PIXEL_DEPTH / 2.0) / PIXEL_DEPTH, as the exact rational
\* (2b - PIXEL_DEPTH) / (2 * PIXEL_DEPTH).
Rescale(b) == << 2 * b - PIXEL_DEPTH, 2 * PIXEL_DEPTH >>

\* A variant that lays each image out column by column.
FlatIndexColumnMajor(n, y, x, side) == n * side * side + x * side + y

\* The flat (0-based) position numpy's C-order reshape gives element
\* (n, y, x, 0) of an array of shape (num, side, side, 1).
FlatIndex(n, y, x, side) == n * side * side + y * side + x

\* line 173: data.reshape(num, side, side, 1); the caller has checked the size.
Reshape(flat, num, side) ==
    [n \in 1..num |->
        [y \in 1..side |->
            [x \in 1..side |->
                << flat[FlatIndex(n - 1, y - 1, x - 1, side) + 1] >> ]]]

\* Whether reshape accepts the flat array: numpy raises ValueError otherwise.
ReshapeFits(flat, num, side) == Len(flat) = num * side * side

ExtractData(archive, num, side) ==
    LET rest == AfterRead(archive, IMAGE_HEADER)
        buf  == ReadBytes(rest, side * side * num)
        data == [i \in 1..Len(buf) |-> Rescale(buf[i])]
    IN  IF ReshapeFits(data, num, side)
        THEN [ok |-> TRUE, value |-> Reshape(data, num, side)]
        ELSE [ok |-> FALSE, value |-> << >>]

(* extract_labels, mnist_train.py:197-206 *)

\* A variant that counts the classes from 1.
OneHotFromOne(labels) ==
    [i \in 1..Len(labels) |->
        [j \in 1..NUM_LABELS |-> IF j = labels[i] THEN 1 ELSE 0]]

\* line 206: (numpy.arange(NUM_LABELS) == labels[:, None]).astype(float32)
OneHot(labels) ==
    [i \in 1..Len(labels) |->
        [j \in 1..NUM_LABELS |-> IF j - 1 = labels[i] THEN 1 ELSE 0]]

ExtractLabels(archive, num) ==
    LET rest == AfterRead(archive, LABEL_HEADER)
        buf  == ReadBytes(rest, 1 * num)
    IN  [ok |-> TRUE, value |-> OneHot(buf)]

-----------------------------------------------------------------------------
(* The split, mnist_train.py:229-236 *)

\* A variant that takes one record too many.
ValidationPartInclusive(a, size) == PySlice(a, 0, size + 1)

\* lines 231-232: a[:VALIDATION_SIZE]
ValidationPart(a, size) == PySlice(a, 0, size)

\* A variant that leaves the validation records in the training pool.
TrainPartWhole(a, size) == PySlice(a, 0, Len(a))

\* lines 233-234: a[VALIDATION_SIZE:]
TrainPart(a, size) == PySlice(a, size, Len(a))

-----------------------------------------------------------------------------
(* error_rate, mnist_train.py:501-513 *)

\* numpy.argmax(m, 1)
ArgmaxRows(m) == [i \in 1..Len(m) |-> Argmax(m[i])]

RECURSIVE SumTrue(_, _, _)
SumTrue(p, a, i) ==
    IF i > Len(p) THEN 0
    ELSE (IF p[i] = a[i] THEN 1 ELSE 0) + SumTrue(p, a, i + 1)

\* line 503: numpy.sum(p == a) of two class vectors.  Equal lengths compare
\* element by element, a vector of length 1 is broadcast, and for any other
\* pair of lengths the comparison is the scalar False, whose sum is 0.
CountEqual(p, a) ==
    IF Len(p) = Len(a) THEN SumTrue(p, a, 1)
    ELSE IF Len(a) = 1 THEN SumTrue(p, [i \in 1..Len(p) |-> a[1]], 1)
    ELSE IF Len(p) = 1 THEN SumTrue([i \in 1..Len(a) |-> p[1]], a, 1)
    ELSE 0

\* line 506: 100.0 - (100 * float(correct) / float(total)) as the exact
\* rational <<numerator, denominator>>; the caller has checked total # 0.
ErrorOf(correct, total) == << 100 * total - 100 * correct, total >>

\* lines 508-511: the grid starts at zero on every call and counts each
\* (predicted, actual) pair of zip(...), which stops at the shorter vector.
RECURSIVE Accumulate(_, _, _, _)
Accumulate(grid, p, a, i) ==
    IF i > Min(Len(p), Len(a)) THEN grid
    ELSE Accumulate([grid EXCEPT ![p[i] + 1][a[i] + 1] = @ + 1], p, a, i + 1)

\* A variant that goes on counting in the grid of the previous call.
CarriedGrid ==
    IF confusions = << >>
    THEN [r \in 1..CONFUSION_SIDE |-> [c \in 1..CONFUSION_SIDE |-> 0]]
    ELSE confusions

\* line 508: numpy.zeros([10, 10], numpy.float32)
ZeroGrid == [r \in 1..CONFUSION_SIDE |-> [c \in 1..CONFUSION_SIDE |-> 0]]

\* A class outside the grid makes confusions[predicted, actual] raise.
InGrid(p, a) ==
    \A i \in 1..Min(Len(p), Len(a)) :
        p[i] < CONFUSION_SIDE /\ a[i] < CONFUSION_SIDE

ErrorRate(preds, labels) ==
    LET p == ArgmaxRows(preds)
        a == ArgmaxRows(labels)
        correct == CountEqual(p, a)
        total == Len(preds)
    IN  IF total = 0
        THEN [ok |-> FALSE, exc |-> "ZeroDivisionError", error |-> << >>,
              confusions |-> << >>]
        ELSE IF ~InGrid(p, a)
        THEN [ok |-> FALSE, exc |-> "IndexError", error |-> << >>,
              confusions |-> << >>]
        ELSE [ok |-> TRUE, exc |-> "", error |-> ErrorOf(correct, total),
              confusions |-> Accumulate(ZeroGrid, p, a, 1)]

-----------------------------------------------------------------------------
(* The inputs of a run *)

\* A payload of len bytes; byte p (0-based) is (seed + stride * p) mod 256.
Pattern(seed, stride, len) ==
    [i \in 1..Max(len, 0) |-> (seed + stride * (i - 1)) % 256]

\* A label payload of len bytes cycling through the classes.
LabelPattern(first, len) ==
    [i \in 1..Max(len, 0) |-> (first + i - 1) % NUM_LABELS]

\* Small runs: every combination of sizes, with up to one image byte and up
\* to MaxMissing label bytes missing from the end of the archives.
SmallConfigs ==
    [side : 1..MaxSide, num : 1..MaxImages, val : 0..MaxValidation,
     lit : 1..MaxBatch, arg : 1..MaxBatch,
     imgMissing : 0..1, labMissing : 0..MaxMissing]

\* Runs with a training pool of 100 records and batches of 10.
WrapConfigs ==
    { [side |-> 1, num |-> 100 + v, val |-> v, lit |-> 10, arg |-> 10,
       imgMissing |-> 0, labMissing |-> 0] : v \in 0..MaxValidation }

Configs == SmallConfigs \cup WrapConfigs

NoFeed == [data |-> << >>, labels |-> << >>]

NoDir == [exists |-> FALSE, checkpoint |-> -1]

\* The CIFAR-100 script has not started.
CifarBlank ==
    /\ train_dir = NoDir
    /\ global_step = 0
    /\ self_step = -1
    /\ self_last_loss = "unset"
    /\ stop_requested = FALSE
    /\ run_loss = "none"
    /\ console = << >>
    /\ summary = << >>

\* The part of the state every specification starts from.
Blank ==
    /\ raised = ""
    /\ BATCH_SIZE = args_batch_size
    /\ node_batch = 0
    /\ train_labels = << >>
    /\ validation_data = << >> /\ validation_labels = << >>
    /\ train_size = 0
    /\ steps = 0 /\ iter = 0 /\ step = -1 /\ offset = 0
    /\ batch_data = << >> /\ batch_labels = << >>
    /\ batch = 0
    /\ fed = NoFeed
    /\ error = << >> /\ confusions = << >> /\ test_error = << >>
    /\ calls = 0

Init ==
    /\ pc = "extract_data"
    /\ \E c \in Configs :
        /\ IMAGE_SIZE = c.side
        /\ VALIDATION_SIZE = c.val
        /\ BATCH_LITERAL = c.lit
        /\ args_batch_size = c.arg
        /\ num_images = c.num
        /\ data_archive = ImageHeader(c.num, c.side)
               \o Pattern(0, 1, c.num * c.side * c.side - c.imgMissing)
        /\ labels_archive = LabelHeader(c.num)
               \o LabelPattern(0, c.num - c.labMissing)
    /\ train_data = << >>
    /\ predictions = << >> /\ labels_arg = << >>
    /\ Blank
    /\ max_steps = 0 /\ log_frequency = 1
    /\ CifarBlank

configVars == <<IMAGE_SIZE, VALIDATION_SIZE, BATCH_LITERAL, args_batch_size,
                num_images, data_archive, labels_archive>>

loopVars == <<steps, iter, step, offset, batch_data, batch_labels, batch, fed>>

metricVars == <<predictions, labels_arg, error, confusions, test_error, calls>>

splitVars == <<validation_data, validation_labels, train_size>>

-----------------------------------------------------------------------------
(* The script, mnist_train.py, statement by statement *)

\* line 176: train_data = extract_data(train_data_filename, 60000)
RunExtractData ==
    /\ pc = "extract_data"
    /\ LET r == ExtractData(data_archive, num_images, IMAGE_SIZE)
       IN  /\ train_data' = r.value
           /\ pc' = IF r.ok THEN "extract_labels" ELSE "error"
           /\ raised' = IF r.ok THEN "" ELSE "ValueError"
    /\ UNCHANGED <<cifarVars, configVars, loopVars, metricVars, splitVars, train_labels,
                   BATCH_SIZE, node_batch>>

\* line 208: train_labels = extract_labels(train_labels_filename, 60000)
RunExtractLabels ==
    /\ pc = "extract_labels"
    /\ LET r == ExtractLabels(labels_archive, num_images)
       IN  /\ train_labels' = r.value
           /\ pc' = IF r.ok THEN "split" ELSE "error"
           /\ raised' = IF r.ok THEN "" ELSE "ValueError"
    /\ UNCHANGED <<cifarVars, configVars, loopVars, metricVars, splitVars, train_data,
                   BATCH_SIZE, node_batch>>

\* lines 231-236
Split ==
    /\ pc = "split"
    /\ validation_data' = ValidationPart(train_data, VALIDATION_SIZE)
    /\ validation_labels' = ValidationPart(train_labels, VALIDATION_SIZE)
    /\ train_data' = TrainPart(train_data, VALIDATION_SIZE)
    /\ train_labels' = TrainPart(train_labels, VALIDATION_SIZE)
    /\ train_size' = Len(train_labels')
    /\ pc' = "graph"
    /\ UNCHANGED <<cifarVars, configVars, loopVars, metricVars, raised, BATCH_SIZE,
                   node_batch>>

\* lines 272-276: the placeholders take the BATCH_SIZE of line 32.
BuildGraph ==
    /\ pc = "graph"
    /\ node_batch' = BATCH_SIZE
    /\ pc' = "first_batch"
    /\ UNCHANGED <<cifarVars, configVars, loopVars, metricVars, splitVars, train_data,
                   train_labels, raised, BATCH_SIZE>>

\* s.run raises ValueError unless both fed arrays have the placeholders'
\* first dimension (lines 272-276).
SessionAccepts(data, labels) ==
    Len(data) = node_batch /\ Len(labels) = node_batch

\* What train_prediction may come back as: one row of NUM_LABELS scores per
\* fed record.  Either the rows repeat the labels or every score is equal.
PredictionChoices(labels) ==
    { labels, [i \in 1..Len(labels) |-> [j \in 1..NUM_LABELS |-> 1]] }

\* lines 440-493: BATCH_SIZE = 60, the first BATCH_SIZE records, one run of
\* the optimizer, and the confusion grid of that batch.
FirstBatch ==
    /\ pc = "first_batch"
    /\ BATCH_SIZE' = BATCH_LITERAL
    /\ batch_data' = PySlice(train_data, 0, BATCH_SIZE')
    /\ batch_labels' = PySlice(train_labels, 0, BATCH_SIZE')
    /\ IF SessionAccepts(batch_data', batch_labels')
       THEN \E preds \in PredictionChoices(batch_labels') :
               /\ batch' = batch + 1
               /\ fed' = [data |-> batch_data', labels |-> batch_labels']
               /\ predictions' = preds
               /\ confusions' = ErrorRate(preds, batch_labels').confusions
               /\ pc' = "steps"
               /\ raised' = ""
       ELSE /\ pc' = "error"
            /\ raised' = "ValueError"
            /\ UNCHANGED <<batch, fed, predictions, confusions>>
    /\ UNCHANGED <<cifarVars, configVars, splitVars, train_data, train_labels, node_batch,
                   steps, iter, step, offset, labels_arg, error, test_error,
                   calls>>

\* A variant that rounds up, to cover a last partial batch.
StepCountCeil(trainSize, batchSize) ==
    (trainSize + batchSize - 1) \div batchSize

\* line 526: train_size // BATCH_SIZE
StepCount(trainSize, batchSize) == trainSize \div batchSize

\* lines 526-527: steps = train_size // BATCH_SIZE; for step in range(steps)
EnterLoop ==
    /\ pc = "steps"
    /\ steps' = StepCount(train_size, BATCH_SIZE)
    /\ iter' = 0
    /\ pc' = "loop"
    /\ UNCHANGED <<cifarVars, configVars, splitVars, metricVars, train_data, train_labels,
                   node_batch, BATCH_SIZE, raised, step, offset, batch_data,
                   batch_labels, batch, fed>>

\* A variant that wraps at the end of the pool.
OffsetModTrainSize(s, batchSize, trainSize) ==
    PyMod(s * batchSize, trainSize)

\* A variant whose modulus is one too large.
OffsetModPlusOne(s, batchSize, trainSize) ==
    PyMod(s * batchSize, trainSize - batchSize + 1)

\* line 530
Offset(s, batchSize, trainSize) ==
    PyMod(s * batchSize, trainSize - batchSize)

\* validation_prediction.eval(): one row per validation image.
ValidationPrediction ==
    [i \in 1..Len(validation_data) |-> [j \in 1..NUM_LABELS |-> 1]]

\* lines 545-550: the report of a step, after its optimizer run.
Report(s, preds, labels) ==
    IF s % REPORT_EVERY # 0
    THEN [ok |-> TRUE, exc |-> "", error |-> error]
    ELSE LET mini == ErrorRate(preds, labels)
             val  == ErrorRate(ValidationPrediction, validation_labels)
         IN  IF ~mini.ok THEN [ok |-> FALSE, exc |-> mini.exc, error |-> error]
             ELSE IF ~val.ok
             THEN [ok |-> FALSE, exc |-> val.exc, error |-> mini.error]
             ELSE [ok |-> TRUE, exc |-> "", error |-> mini.error]

\* lines 527-550: one pass of the loop body.
TrainStep ==
    /\ pc = "loop"
    /\ iter < steps
    /\ step' = iter
    /\ iter' = iter + 1
    /\ IF train_size - BATCH_SIZE = 0
       THEN /\ pc' = "error"
            /\ raised' = "ZeroDivisionError"
            /\ UNCHANGED <<offset, batch_data, batch_labels, batch, fed,
                           predictions, error>>
       ELSE /\ offset' = Offset(step', BATCH_SIZE, train_size)
            /\ batch_data' = PySlice(train_data, offset', offset' + BATCH_SIZE)
            /\ batch_labels' = PySlice(train_labels, offset', offset' + BATCH_SIZE)
            /\ IF SessionAccepts(batch_data', batch_labels')
               THEN \E preds \in PredictionChoices(batch_labels') :
                       LET r == Report(step', preds, batch_labels')
                       IN  /\ batch' = batch + 1
                           /\ fed' = [data |-> batch_data',
                                      labels |-> batch_labels']
                           /\ predictions' = preds
                           /\ error' = r.error
                           /\ pc' = IF r.ok THEN "loop" ELSE "error"
                           /\ raised' = r.exc
               ELSE /\ pc' = "error"
                    /\ raised' = "ValueError"
                    /\ UNCHANGED <<batch, fed, predictions, error>>
    /\ UNCHANGED <<cifarVars, configVars, splitVars, train_data, train_labels, node_batch,
                   BATCH_SIZE, steps, labels_arg, confusions, test_error,
                   calls>>

\* The labels of the test set (lines 209, 139-142: the first one is a 7).
TestLabelChoices == { OneHot(<<7>>), OneHot(<<7, 2, 1>>) }

\* lines 552-561: the loop is over; the test error and its confusion grid.
Finish ==
    /\ pc = "loop"
    /\ iter = steps
    /\ \E test_labels \in TestLabelChoices :
       \E preds \in PredictionChoices(test_labels) :
           LET r == ErrorRate(preds, test_labels)
           IN  /\ test_error' = r.error
               /\ confusions' = r.confusions
               /\ pc' = IF r.ok THEN "done" ELSE "error"
               /\ raised' = r.exc
    /\ UNCHANGED <<cifarVars, configVars, splitVars, loopVars, train_data, train_labels,
                   node_batch, BATCH_SIZE, predictions, labels_arg, error,
                   calls>>

Next ==
    \/ RunExtractData
    \/ RunExtractLabels
    \/ Split
    \/ BuildGraph
    \/ FirstBatch
    \/ EnterLoop
    \/ TrainStep
    \/ Finish

Spec == Init /\ [][Next]_vars

-----------------------------------------------------------------------------
(* Properties of the MNIST run *)

\* The arrays as decoded, before the split overwrites train_data/train_labels.
\* The payload bytes of a run are pairwise distinct, so an image identifies
\* its position in DecodedData.
DecodedData == ExtractData(data_archive, num_images, IMAGE_SIZE).value

DecodedLabels == ExtractLabels(labels_archive, num_images).value

\* The loop body has drawn a batch for index `step`.
LoopHasDrawn == step >= 0 /\ train_size # BATCH_SIZE

\* C1: in the training loop, for every step index and every
\* trainSize > batchSize > 0, offset = (step * batchSize) mod
\* (trainSize - batchSize), the batch is the slice [offset, offset + batchSize)
\* of the training pool, it holds exactly batchSize records and it ends at or
\* before the end of the pool.
C1_BatchIsSlice ==
    (LoopHasDrawn /\ train_size > BATCH_SIZE /\ BATCH_SIZE > 0) =>
        /\ 0 <= offset /\ offset < train_size - BATCH_SIZE
        /\ \E q \in 0..(step * BATCH_SIZE) :
              step * BATCH_SIZE = q * (train_size - BATCH_SIZE) + offset
        /\ Len(batch_data) = BATCH_SIZE
        /\ Len(batch_labels) = BATCH_SIZE
        /\ \A i \in 1..BATCH_SIZE :
              /\ batch_data[i] = train_data[offset + i]
              /\ batch_labels[i] = train_labels[offset + i]
        /\ offset + BATCH_SIZE <= train_size

C1_Witness ==
    /\ pc = "loop" /\ step > 0 /\ offset > 0
    /\ train_size > BATCH_SIZE
    /\ batch = step + 2

\* C2 as stated: with trainSize = 100 and batchSize = 10 the offset of step s
\* is the s-th term of 0, 10, ..., 90, 0, 10, ...
C2_CycleOfTen ==
    (LoopHasDrawn /\ train_size = 100 /\ BATCH_SIZE = 10) =>
        offset = (step * 10) % 100

\* C2 amended: with trainSize = 100 and batchSize = 10 the offsets of steps
\* 0..9 are 0, 10, ..., 80, 0: offset 90 never occurs, the batch of step 9 is
\* the batch of step 0 (the first ten records), and step 10 would be at 10.
C2_CycleOfNine ==
    (LoopHasDrawn /\ train_size = 100 /\ BATCH_SIZE = 10) =>
        /\ step <= 9
        /\ offset = <<0, 10, 20, 30, 40, 50, 60, 70, 80, 0>>[step + 1]
        /\ step = 9 => \A i \in 1..10 : batch_data[i] = train_data[i]
        /\ Offset(10, 10, 100) = 10

C2_Witness ==
    /\ pc = "loop" /\ train_size = 100 /\ BATCH_SIZE = 10
    /\ step = 9 /\ offset = 0 /\ batch = 11

C4_NoValidationRecordFed ==
    batch > 0 =>
        \A i \in 1..Len(fed.data) :
            /\ \E j \in 1..Len(DecodedData) : DecodedData[j] = fed.data[i]
            /\ \A j \in 1..Len(DecodedData) :
                  DecodedData[j] = fed.data[i] => j - 1 >= VALIDATION_SIZE

C4_Witness ==
    /\ pc = "loop" /\ batch >= 2 /\ VALIDATION_SIZE > 0
    /\ Len(fed.data) > 0 /\ offset > 0

\* The split has run: the script is past line 236 (an error before the graph
\* is built leaves node_batch at 0).
AfterSplit ==
    \/ pc \in {"graph", "first_batch", "steps", "loop", "done"}
    \/ pc = "error" /\ node_batch > 0

\* first is the leading size records of whole and rest the others, in order.
SplitsAt(whole, first, rest, size) ==
    /\ Len(first) + Len(rest) = Len(whole)
    /\ Len(first) = size
    /\ \A i \in 1..Len(first) : first[i] = whole[i]
    /\ \A i \in 1..Len(rest) : rest[i] = whole[size + i]

\* C5: for VALIDATION_SIZE <= total, validation and training partition the
\* decoded records in order, validation being the first VALIDATION_SIZE, and
\* images and labels are cut at the same index.
C5_SplitInvariant ==
    AfterSplit =>
        /\ VALIDATION_SIZE <= Len(DecodedData) =>
              SplitsAt(DecodedData, validation_data, train_data,
                       VALIDATION_SIZE)
        /\ VALIDATION_SIZE <= Len(DecodedLabels) =>
              /\ SplitsAt(DecodedLabels, validation_labels, train_labels,
                          VALIDATION_SIZE)
              /\ Len(validation_labels) = Len(validation_data)

C5_Witness ==
    /\ pc = "graph" /\ VALIDATION_SIZE > 0
    /\ Len(train_data) > 1 /\ Len(train_labels) > 1
    /\ Len(validation_data) = VALIDATION_SIZE

\* C7: when the decoded image and label counts differ, no optimizer run
\* happens, and no optimizer run sees training arrays of different lengths.
C7_MismatchStopsBeforeTraining ==
    batch > 0 =>
        /\ Len(DecodedData) = Len(DecodedLabels)
        /\ Len(train_data) = Len(train_labels)

-----------------------------------------------------------------------------
(* The decoders on their own: extract_data and extract_labels applied to     *)
(* archives of every length, cut anywhere from the empty file to one byte    *)
(* more than the records asked for.                                          *)

ByteSeeds == {0, 126, 254}

ByteStrides == {1, 129}

LabelSeeds == {0, 7, 250}

WellFormedData(num, side) ==
    ImageHeader(num, side) \o Pattern(0, 1, num * side * side)

WellFormedLabels(num) == LabelHeader(num) \o LabelPattern(0, num)

InitDecode ==
    /\ VALIDATION_SIZE = 0
    /\ BATCH_LITERAL = 1
    /\ args_batch_size = 1
    /\ predictions = << >> /\ labels_arg = << >>
    /\ Blank
    /\ max_steps = 0 /\ log_frequency = 1
    /\ CifarBlank
    /\ \E side \in 1..MaxSide, num \in 0..MaxImages :
        /\ IMAGE_SIZE = side
        /\ num_images = num
        /\ \/ /\ pc = "extract_data"
              /\ \E seed \in ByteSeeds, stride \in ByteStrides,
                    len \in 0..(IMAGE_HEADER + num * side * side + 1) :
                    data_archive =
                        PySlice(ImageHeader(num, side)
                                \o Pattern(seed, stride, num * side * side + 1),
                                0, len)
              /\ labels_archive = WellFormedLabels(num)
              /\ train_data = << >>
           \/ /\ pc = "extract_labels"
              /\ data_archive = WellFormedData(num, side)
              /\ train_data = ExtractData(data_archive, num, side).value
              /\ \E seed \in LabelSeeds, len \in 0..(LABEL_HEADER + num + 1) :
                    labels_archive =
                        PySlice(LabelHeader(num) \o Pattern(seed, 1, num + 1),
                                0, len)

NextDecode ==
    \/ RunExtractData
    \/ RunExtractLabels

SpecDecode == InitDecode /\ [][NextDecode]_vars

\* The bytes an archive holds after a header of the given length.
PayloadLen(archive, header) == Max(Len(archive) - header, 0)

DataReturned == pc \in {"extract_labels", "split"}

LabelsReturned == pc = "split"

\* C6: an archive with fewer payload bytes than the records asked for makes
\* the decoder fail: neither extract_data nor extract_labels returns.  (Stated
\* for archives that hold at least one payload byte.)
C6_ShortArchiveFails ==
    /\ (/\ PayloadLen(data_archive, IMAGE_HEADER) >= 1
        /\ PayloadLen(data_archive, IMAGE_HEADER)
              < num_images * IMAGE_SIZE * IMAGE_SIZE) => ~DataReturned
    /\ (/\ PayloadLen(labels_archive, LABEL_HEADER) >= 1
        /\ PayloadLen(labels_archive, LABEL_HEADER) < num_images) =>
              ~LabelsReturned

\* C8: extract_data on a 16-byte header followed by (at least) num_images
\* images of IMAGE_SIZE x IMAGE_SIZE bytes returns num_images images of shape
\* IMAGE_SIZE x IMAGE_SIZE x 1 whose pixel (n, y, x) is (2b - 255) / 510 for
\* the byte b at payload position n * side * side + y * side + x, a value in
\* [-0.5, 0.5].
C8_DecodeRoundTrip ==
    DataReturned =>
        /\ Len(train_data) = num_images
        /\ \A n \in 1..num_images :
              /\ Len(train_data[n]) = IMAGE_SIZE
              /\ \A y \in 1..IMAGE_SIZE :
                    /\ Len(train_data[n][y]) = IMAGE_SIZE
                    /\ \A x \in 1..IMAGE_SIZE :
                          LET px == train_data[n][y][x]
                              b  == data_archive[16 + (n - 1) * IMAGE_SIZE * IMAGE_SIZE
                                                    + (y - 1) * IMAGE_SIZE + (x - 1) + 1]
                          IN  /\ Len(px) = 1
                              /\ px[1] = << 2 * b - 255, 510 >>
                              /\ -1 * px[1][2] <= 2 * px[1][1]
                              /\ 2 * px[1][1] <= px[1][2]

C8_Witness ==
    /\ pc = "extract_labels" /\ IMAGE_SIZE = 2 /\ num_images >= 2
    /\ train_data[1][1][1][1] = << 253, 510 >>
    /\ train_data[1][1][2][1] = << 255, 510 >>
    /\ train_data[1][2][1][1] = << -255, 510 >>

RECURSIVE SumSeq(_)
SumSeq(v) == IF v = << >> THEN 0 ELSE Head(v) + SumSeq(Tail(v))

\* C9: extract_labels returns one row per label byte read; row i belongs to
\* the i-th byte v after the 8-byte header, and for v < NUM_LABELS it has
\* length NUM_LABELS, a 1 at index v, 0 elsewhere, and sums to 1.
C9_OneHot ==
    LabelsReturned =>
        /\ Len(train_labels) = Min(num_images, PayloadLen(labels_archive, 8))
        /\ \A i \in 1..Len(train_labels) :
              LET v == labels_archive[8 + i]
              IN  v \in 0..(NUM_LABELS - 1) =>
                      /\ Len(train_labels[i]) = NUM_LABELS
                      /\ train_labels[i][v + 1] = 1
                      /\ \A j \in 1..NUM_LABELS :
                            j # v + 1 => train_labels[i][j] = 0
                      /\ SumSeq(train_labels[i]) = 1

C9_Witness ==
    /\ LabelsReturned /\ Len(train_labels) >= 3
    /\ labels_archive[9] = 7 /\ labels_archive[11] = 9
    /\ train_labels[3][10] = 1

-----------------------------------------------------------------------------
(* error_rate on its own: called on batches of up to MaxLen rows, then on    *)
(* further batches while the results of the earlier call are still around.   *)

Unit(c, n) == [j \in 1..n |-> IF j - 1 = c THEN 1 ELSE 0]

\* Score rows: certain of class 0, 3 or 9, all classes equal, and classes 3
\* and 9 tied for the maximum.
ScoreRows ==
    { Unit(0, NUM_LABELS), Unit(3, NUM_LABELS), Unit(9, NUM_LABELS),
      [j \in 1..NUM_LABELS |-> 1],
      [j \in 1..NUM_LABELS |-> IF j \in {4, 10} THEN 5 ELSE 2] }

LabelRows == { Unit(0, NUM_LABELS), Unit(3, NUM_LABELS), Unit(9, NUM_LABELS) }

\* Two-class batches: labels [0, 1, 0, 1] with every prediction class 0, and
\* a single record predicted right.
LaterBatches ==
    { [preds  |-> << <<1, 0>>, <<1, 0>>, <<1, 0>>, <<1, 0>> >>,
       labels |-> << <<1, 0>>, <<0, 1>>, <<1, 0>>, <<0, 1>> >>],
      [preds  |-> << <<0, 1>> >>, labels |-> << <<0, 1>> >>] }

InitMetric ==
    /\ pc = "call_error_rate"
    /\ IMAGE_SIZE = 1 /\ VALIDATION_SIZE = 0 /\ BATCH_LITERAL = 1
    /\ args_batch_size = 1 /\ num_images = 0
    /\ data_archive = << >> /\ labels_archive = << >>
    /\ train_data = << >>
    /\ Blank
    /\ max_steps = 0 /\ log_frequency = 1
    /\ CifarBlank
    /\ \E total \in 0..MaxLen :
        /\ predictions \in [1..total -> ScoreRows]
        /\ labels_arg \in [1..total -> LabelRows]

\* error, confusions = error_rate(predictions, labels), lines 501-513
CallErrorRate ==
    /\ pc = "call_error_rate"
    /\ LET r == ErrorRate(predictions, labels_arg)
       IN  /\ pc' = IF r.ok THEN "returned" ELSE "error"
           /\ raised' = r.exc
           /\ error' = IF r.ok THEN r.error ELSE error
           /\ confusions' = IF r.ok THEN r.confusions ELSE confusions
    /\ calls' = calls + 1
    /\ UNCHANGED <<cifarVars, configVars, splitVars, loopVars, train_data, train_labels,
                   node_batch, BATCH_SIZE, predictions, labels_arg, test_error>>

\* The caller prepares the arguments of another call.
NextCall ==
    /\ pc = "returned"
    /\ calls < MaxCalls
    /\ \E b \in LaterBatches :
        /\ predictions' = b.preds
        /\ labels_arg' = b.labels
    /\ pc' = "call_error_rate"
    /\ UNCHANGED <<cifarVars, configVars, splitVars, loopVars, train_data, train_labels,
                   node_batch, BATCH_SIZE, raised, error, confusions,
                   test_error, calls>>

NextMetric ==
    \/ CallErrorRate
    \/ NextCall

SpecMetric == InitMetric /\ [][NextMetric]_vars

\* k (0-based) is the first index at which v is largest.
IsFirstMax(v, k) ==
    /\ k + 1 \in 1..Len(v)
    /\ \A j \in 1..Len(v) : v[j] <= v[k + 1]
    /\ \A j \in 1..k : v[j] < v[k + 1]

\* The class a one-hot row stands for.
TrueClass(row) == CHOOSE c \in 0..(Len(row) - 1) : row[c + 1] = 1

\* The positions of the last call's batch that were predicted right.
CorrectPositions ==
    { i \in 1..Len(predictions) :
        IsFirstMax(predictions[i], TrueClass(labels_arg[i])) }

\* C10: for a non-empty batch of size T, error_rate returns
\* 100 * (1 - correctCount / T), correctCount being the number of positions
\* whose first-maximum predicted class is the true class; 0 when every
\* position is right and 100 when none is.
C10_ErrorRateFormula ==
    (pc = "returned" /\ Len(predictions) >= 1) =>
        LET T == Len(predictions)
            c == Cardinality(CorrectPositions)
        IN  /\ Len(error) = 2 /\ error[2] > 0
            /\ error[1] * T = 100 * (T - c) * error[2]
            /\ c = T => error[1] = 0
            /\ c = 0 => error[1] = 100 * error[2]

C10_Witness ==
    /\ pc = "returned" /\ Len(predictions) = 2
    /\ predictions[1] = [j \in 1..NUM_LABELS |-> IF j \in {4, 10} THEN 5 ELSE 2]
    /\ labels_arg[1] = Unit(3, NUM_LABELS)
    /\ Cardinality(CorrectPositions) = 1
    /\ error = << 100, 2 >>

\* The two-class batch: labels [0, 1, 0, 1], every prediction class 0.
IsTwoClassExample ==
    /\ predictions = << <<1, 0>>, <<1, 0>>, <<1, 0>>, <<1, 0>> >>
    /\ labels_arg = << <<1, 0>>, <<0, 1>>, <<1, 0>>, <<0, 1>> >>

\* The positions of the last call's batch predicted p whose actual class is a.
PairPositions(p, a) ==
    { i \in 1..Len(predictions) :
        IsFirstMax(predictions[i], p) /\ IsFirstMax(labels_arg[i], a) }

GridSum(g) == SumSeq([r \in 1..Len(g) |-> SumSeq(g[r])])

-----------------------------------------------------------------------------
(* The configured batch size *)

\* Lines 443-444 have drawn the first batch, from a pool that holds a whole
\* batch.
FirstBatchDrawn ==
    /\ node_batch > 0 /\ pc # "first_batch"
    /\ Len(train_data) >= BATCH_SIZE /\ Len(train_labels) >= BATCH_SIZE

\* C12: every mini-batch handed to a training step holds exactly
\* --batch-size examples, the size the placeholders and the learning-rate
\* schedule were built with.
C12_ConfiguredBatchSizeFed ==
    FirstBatchDrawn =>
        /\ Len(batch_data) = args_batch_size
        /\ Len(batch_labels) = args_batch_size
        /\ BATCH_SIZE = node_batch


-----------------------------------------------------------------------------
\* cifar100_train.py: main() and train() under a MonitoredTrainingSession.

mnistVars == <<IMAGE_SIZE, VALIDATION_SIZE, BATCH_LITERAL, args_batch_size,
               BATCH_SIZE, node_batch, num_images, data_archive, labels_archive,
               train_data, train_labels, validation_data, validation_labels,
               train_size, steps, iter, step, offset, batch_data, batch_labels,
               batch, fed, predictions, labels_arg, error, confusions,
               test_error, calls>>

\* The loss values a training step can return; "nan" is a NaN loss.
Losses == {"low", "high"}

\* A variant that creates the directory but leaves what was in it.
KeptDir(dir) == [exists |-> TRUE, checkpoint |-> dir.checkpoint]

\* lines 136-138: delete the directory when it exists, then create it.
ClearedDir(dir) == [exists |-> TRUE, checkpoint |-> -1]

InitCifar ==
    /\ pc = "main"
    /\ IMAGE_SIZE = 1 /\ VALIDATION_SIZE = 0 /\ BATCH_LITERAL = 1
    /\ args_batch_size = 1 /\ num_images = 0
    /\ data_archive = << >> /\ labels_archive = << >>
    /\ train_data = << >>
    /\ predictions = << >> /\ labels_arg = << >>
    /\ Blank
    /\ max_steps \in 1..MaxSteps
    /\ log_frequency \in 1..MaxLogFrequency
    /\ train_dir \in {NoDir}
                     \cup { [exists |-> TRUE, checkpoint |-> g] : g \in -1..MaxSteps }
    /\ global_step = 0
    /\ self_step = -1
    /\ self_last_loss = "unset"
    /\ stop_requested = FALSE
    /\ run_loss = "none"
    /\ console = << >>
    /\ summary = << >>

\* main(), lines 134-138, up to the call of train()
Main ==
    /\ pc = "main"
    /\ train_dir' = ClearedDir(train_dir)
    /\ pc' = "train"
    /\ UNCHANGED <<mnistVars, raised, max_steps, log_frequency, global_step,
                   self_step, self_last_loss, stop_requested, run_loss,
                   console, summary>>

\* lines 116-125: the session is created over train_dir, which restores the
\* global step of a checkpoint found there, and _LoggerHook.begin (lines
\* 90-92) runs.
CreateSession ==
    /\ pc = "train"
    /\ global_step' = IF train_dir.checkpoint >= 0 THEN train_dir.checkpoint ELSE 0
    /\ self_step' = -1
    /\ stop_requested' = FALSE
    /\ pc' = "mon_loop"
    /\ UNCHANGED <<mnistVars, raised, max_steps, log_frequency, train_dir,
                   self_last_loss, run_loss, console, summary>>

\* One pass of the loop of lines 126-127: mon_sess.run(train_op) with the
\* hooks of lines 119-121 around it.  before_run (lines 94-96) counts the
\* step; StopAtStepHook asks for the stop once the global step has reached
\* max_steps; NanTensorHook raises on a NaN loss; after_run (lines 98-112)
\* reports when the step count is a multiple of log_frequency.
RunStep ==
    /\ pc = "mon_loop"
    /\ ~stop_requested
    /\ \E loss \in Losses \cup {"nan"} :
        /\ self_step' = self_step + 1
        /\ global_step' = global_step + 1
        /\ run_loss' = loss
        /\ stop_requested' = (global_step + 1 >= max_steps)
        /\ IF loss = "nan"
           THEN /\ pc' = "nan_error"
                /\ raised' = "NanLossDuringTrainingError"
                /\ UNCHANGED <<self_last_loss, console>>
           ELSE /\ UNCHANGED <<pc, raised>>
                /\ IF PyMod(self_step + 1, log_frequency) = 0
                   THEN /\ self_last_loss' = loss
                        /\ console' = Append(console,
                                             [step    |-> self_step + 1,
                                              loss    |-> loss,
                                              divisor |-> log_frequency])
                   ELSE UNCHANGED <<self_last_loss, console>>
    /\ UNCHANGED <<mnistVars, max_steps, log_frequency, train_dir, summary>>

\* lines 129-132 and the end of the with block: the final lines are written
\* and the session saves its last checkpoint on closing.
FinishTrain ==
    /\ pc = "mon_loop"
    /\ stop_requested
    /\ IF self_last_loss = "unset"
       THEN /\ pc' = "attribute_error"
            /\ raised' = "AttributeError"
            /\ UNCHANGED summary
       ELSE /\ pc' = "trained"
            /\ summary' = << [steps |-> max_steps, last_loss |-> self_last_loss] >>
            /\ UNCHANGED raised
    /\ train_dir' = [exists |-> TRUE, checkpoint |-> global_step]
    /\ UNCHANGED <<mnistVars, max_steps, log_frequency, global_step, self_step,
                   self_last_loss, stop_requested, run_loss, console>>

NextCifar ==
    \/ Main
    \/ CreateSession
    \/ RunStep
    \/ FinishTrain

SpecCifar == InitCifar /\ [][NextCifar]_vars

\* The steps the loop of lines 126-127 has executed in this run.
StepsExecuted == self_step + 1

\* C13: a run through main() starts training on a cleared, recreated
\* training directory, the loop goes on exactly until max_steps steps have
\* been executed, and the step count on the final line is the number of
\* steps executed.
C13_RunsMaxSteps ==
    /\ pc = "train" => train_dir = [exists |-> TRUE, checkpoint |-> -1]
    /\ pc = "mon_loop" =>
          /\ global_step = StepsExecuted
          /\ StepsExecuted <= max_steps
          /\ stop_requested <=> StepsExecuted = max_steps
    /\ pc = "trained" =>
          /\ StepsExecuted = max_steps
          /\ Len(summary) = 1
          /\ summary[1].steps = StepsExecuted

C13_Witness ==
    /\ pc = "trained"
    /\ max_steps = 3
    /\ StepsExecuted = 3
    /\ summary[1].steps = 3

\* The steps executed since the report before the k-th one, or since
\* training began for the first report; the step of the report is counted.
StepsSinceReport(k) ==
    IF k = 1 THEN console[1].step + 1
             ELSE console[k].step - console[k - 1].step

\* C14: at every report of the logger hook, the first one included, the
\* divisor log_frequency of lines 106-107 is the number of steps executed
\* since the previous report (or since training began).
C14_DivisorIsStepsSinceReport ==
    \A k \in 1..Len(console) : console[k].divisor = StepsSinceReport(k)

\* C15: on the final log line of a finished run, the last loss value is
\* defined and is the loss of the last training step executed.
C15_LastLossIsLastStep ==
    pc = "trained" =>
        /\ summary[1].last_loss \in Losses
        /\ summary[1].last_loss = run_loss

\* The highest index (from 0) of the training pool in the batch of step s.
HighestIndexFed(s) == Offset(s, BATCH_SIZE, train_size) + BATCH_SIZE - 1

\* C16: for trainSize > batchSize > 0 the batch of a loop step never holds
\* the final record of the training pool: the batch is the records at
\* offset .. offset + batchSize - 1 with offset + batchSize - 1 at most
\* trainSize - 2, at every step index of the pass of trainSize // batchSize
\* steps and at the step indices beyond it.
C16_FinalRecordNeverFed ==
    (LoopHasDrawn /\ train_size > BATCH_SIZE /\ BATCH_SIZE > 0) =>
        /\ batch_data = [i \in 1..BATCH_SIZE |-> train_data[offset + i]]
        /\ offset = Offset(step, BATCH_SIZE, train_size)
        /\ HighestIndexFed(step) <= train_size - 2
        /\ steps = train_size \div BATCH_SIZE
        /\ \A s \in 0..(steps + MaxExtraSteps) :
              /\ HighestIndexFed(s) <= train_size - 2
              /\ \A i \in 0..(BATCH_SIZE - 1) :
                    Offset(s, BATCH_SIZE, train_size) + i # train_size - 1

C16_Witness ==
    /\ pc = "loop" /\ step >= 1
    /\ train_size > BATCH_SIZE /\ BATCH_SIZE > 0
    /\ offset > 0
    /\ HighestIndexFed(step) = train_size - 2
    /\ batch_data[BATCH_SIZE] = train_data[train_size - 1]

=============================================================================
